---- MODULE Spec2Model ----
(***************************************************************************)
(* Model of jsbin.xayoxex.js: a Leaflet/D3/Carto dashboard.                *)
(*                                                                         *)
(* Two data sources live on the Carto back-end: the restaurant source      *)
(* resData (two Category dataviews: totalView by cuisine, zipView by       *)
(* zipcode) and the subway source subwaySource (a point layer).  The       *)
(* editable circle drives subwaySource; the bar chart drives resData.      *)
(*                                                                         *)
(* Numbers: latitudes and longitudes are integers in units of 1e-7 degree, *)
(* the 4-decimal strings of toFixed(4) are integers in units of 1e-4       *)
(* degree; radii are whole metres.  Threshold values of the colour scale   *)
(* are kept multiplied by steps, so that k*maxCount/steps stays integral.  *)
(***************************************************************************)
EXTENDS Integers, Sequences, FiniteSets, TLC

VARIABLES
    circle,            \* baseMap[3]: [lat, lng, radius] of the editable circle
    circleUpdated,     \* the dirty flag of setupSelectionHandlers
    caption,           \* contents of the .infobox control
    subwayQuery,       \* current query of subwaySource
    resQuery,          \* current query of resData
    selection,         \* [cuisine, data]
    subscribed,        \* initBarChart is registered on totalView 'dataChanged'
    zipSubscribed,     \* the arrow function is registered on zipView 'dataChanged'
    bars,              \* keys of the bars of the chart (<<>>: no bars)
    requested,         \* the queries resData has had: each is fetched by both
                       \* views, and its result arrives at any later time
    fills,             \* fill style of every .zipcode path
    legend,            \* the choropleth legend
    ev,                \* the handler that ran last
    calls,             \* what that handler called, and whether it raised
    editsSinceCommit,  \* edit events since the last mouseup (0, 1, 2 = many)
    dataFor,           \* the query whose result selection.data holds
    createChartCalls   \* calls of createChart so far (0, 1, 2 = many)

vars == << circle, circleUpdated, caption, subwayQuery, resQuery, selection,
           subscribed, zipSubscribed, bars, requested, fills, legend, ev,
           calls, editsSinceCommit, dataFor, createChartCalls >>

selVars == << circle, circleUpdated, caption, subwayQuery, editsSinceCommit >>
resVars == << resQuery, selection, subscribed, zipSubscribed, bars,
              requested, fills, legend, dataFor, createChartCalls >>

-----------------------------------------------------------------------------
(* Bounds of the model *)

MaxCount == 12

-----------------------------------------------------------------------------
(* Geometry of the circle and the two strings made of it *)

cusp == [lat |-> 406929080, lng |-> -739896452]
InitRadius == 1000

\* positions the user can drag the circle to, and radii it can be resized to
Positions == {cusp, [lat |-> 406929501, lng |-> -739896501]}
Radii == {InitRadius, 1500}

\* Number.prototype.toFixed(4) of a value in 1e-7 units, in 1e-4 units
toFixed4(v) ==
    IF v >= 0 THEN (v + 500) \div 1000 ELSE -((-v + 500) \div 1000)

\* L.GeometryUtil.readableDistance(d, true): metres up to 1000, else km
\* with two decimals (kept in units of 10 m)
readableDistance(d) ==
    IF d > 1000 THEN [unit |-> "km", value |-> (d + 5) \div 10]
                ELSE [unit |-> "m", value |-> d]

BaseSubwayQuery == [from |-> "huyvo.ourdata", line |-> "%F%", within |-> <<>>]

\* mutant of CircleQuery: the query is built from the geometry the circle
\* was created with
CircleQueryInitial(c) ==
    [from |-> "huyvo.ourdata", line |-> "%F%",
     within |-> << toFixed4(cusp.lat), toFixed4(cusp.lng), InitRadius >>]

\* the template string of updateQuery
CircleQuery(c) ==
    [from |-> "huyvo.ourdata", line |-> "%F%",
     within |-> << toFixed4(c.lat), toFixed4(c.lng), c.radius >>]

updateCaption(c) ==
    [coords |-> << toFixed4(c.lat), toFixed4(c.lng) >>,
     radius |-> readableDistance(c.radius)]

-----------------------------------------------------------------------------
(* The choropleth: updateMap *)

Features == {"10001", "10002", "10003", "10004"}
steps == 5
Undefined == -1
schemeBlues == << "#eff3ff", "#bdd7e7", "#6baed6", "#3182bd", "#08519c" >>

Min(a, b) == IF a <= b THEN a ELSE b

RECURSIVE d3max(_)
\* d3.max(data, d => d[1]); Undefined for the empty sequence
d3max(data) ==
    IF data = <<>> THEN Undefined
    ELSE LET m == d3max(Tail(data))
         IN  IF m = Undefined \/ Head(data)[2] > m THEN Head(data)[2] ELSE m

\* d3.range(0, maxCount, maxCount/steps), every value multiplied by steps:
\* ceil((stop - start)/step) values start + i*step, none when that is NaN
d3range(maxCount) ==
    IF maxCount = Undefined \/ maxCount = 0 THEN <<>>
    ELSE [i \in 1..steps |-> (i - 1) * maxCount]

\* d3.bisectRight(domain, x, 0, n) on an ascending domain
bisectRight(domain, x, n) == Cardinality({i \in 1..n : domain[i] <= x})

\* d3.scaleThreshold().domain(domain).range(schemeBlues[steps]) applied to a
\* value x that is already multiplied by steps:
\* range[bisect(domain, x, 0, n)], n = min(domain.length, range.length - 1)
scaleThreshold(domain, x) ==
    schemeBlues[bisectRight(domain, x, Min(Len(domain), Len(schemeBlues) - 1)) + 1]

\* color(d[1]) for a count v
color(domain, v) == scaleThreshold(domain, v * steps)

\* mutant of updateMapRaises: the maximum is read off data[0], which an
\* empty data has not
updateMapRaisesOnEmpty(data) ==
    data = <<>> \/ \E i \in 1..Len(data) : data[i][1] = ""

\* updateMap raises when the key function of the data join meets a datum
\* whose d[0] is falsy (an array has no d.properties); nothing else in it can
updateMapRaises(data) == \E i \in 1..Len(data) : data[i][1] = ""

\* the datum the join binds to the path of feature f: the first one of its key
Bound(data, f) ==
    LET I == {i \in 1..Len(data) : data[i][1] = f}
    IN  IF I = {} THEN <<>>
        ELSE << data[CHOOSE i \in I : \A j \in I : i <= j] >>

\* color.invertExtent of the i-th colour, with the falsy ends replaced by
\* the ends of x.domain(), and the fill of the box
LegendBox(domain, maxCount, i) ==
    LET lo == IF i - 1 >= 1 /\ i - 1 <= Len(domain) THEN domain[i - 1] ELSE 0
        hi == IF i <= Len(domain) THEN domain[i] ELSE 0
        x1 == IF maxCount = Undefined THEN 0 ELSE maxCount * steps
        b0 == lo
        b1 == IF hi = 0 THEN x1 ELSE hi
    IN  [from |-> b0, to |-> b1,
         fill |-> scaleThreshold(domain, b0)]

\* what updateMap draws: the fills of the paths and the legend
updateMap(sel) ==
    LET data     == sel.data
        maxCount == d3max(data)
        domain   == d3range(maxCount)
    IN  [fills  |-> [f \in Features |->
                       IF Bound(data, f) = <<>> THEN "none"
                       ELSE color(domain, Bound(data, f)[1][2])],
         legend |-> [boxes   |-> [i \in 1..Len(schemeBlues) |->
                                     LegendBox(domain, maxCount, i)],
                     ticks   |-> domain,
                     caption |-> sel.cuisine]]

-----------------------------------------------------------------------------
(* Results the back-end can deliver *)

Cuisines == {"Pizza", "Tacos"}
Tags == {"All"} \cup Cuisines

\* newData.categories of totalView, as [name, value] pairs
CategoryResults ==
    { <<>>,
      << <<"Pizza", 3>>, <<"Tacos", 2>> >>,
      << <<"Tacos", 4>> >> }

\* newData.categories of zipView, as [name, value] pairs; "" is a null name
ZipResults ==
    { <<>>,
      << <<"10001", 5>>, <<"10002", 0>>, <<"10003", MaxCount>> >>,
      << <<"10002", 0>> >>,
      << <<"", 3>>, <<"10001", 1>> >> }

-----------------------------------------------------------------------------
(* The state after initVisualization *)

\* what a handler was given or found (arg: the clicked key, the delivered
\* categories, the edits a mouseup commits, the flag an edit finds) and what
\* it called
NoCalls == [arg |-> <<>>, subwaySetQuery |-> 0, resSetQuery |-> 0,
            updateMap |-> 0, createChart |-> 0, raised |-> FALSE]

InitSelection == [cuisine |-> "All", data |-> <<>>]
InitCircle == [lat |-> cusp.lat, lng |-> cusp.lng, radius |-> InitRadius]
InitResQuery == [from |-> "huyvo.nyc_restaurant_grades", where |-> <<>>]

Init ==
    /\ circle = InitCircle
    /\ circleUpdated = TRUE
    /\ caption = updateCaption(InitCircle)
    /\ subwayQuery = BaseSubwayQuery
    /\ resQuery = InitResQuery
    /\ selection = InitSelection
    /\ subscribed = TRUE
    /\ zipSubscribed = TRUE
    /\ createChartCalls = 0
    /\ bars = <<>>
    /\ requested = {"All"}
    /\ fills = updateMap(InitSelection).fills
    /\ legend = updateMap(InitSelection).legend
    /\ ev = "init"
    /\ calls = [NoCalls EXCEPT !.updateMap = 1]
    /\ editsSinceCommit = 0
    /\ dataFor = "none"

-----------------------------------------------------------------------------
(* The selection controller: setupSelectionHandlers *)

\* mutant of updateQueryStatus: nothing is done when the flag is already set
updateQueryStatusOnce(c) ==
    IF circleUpdated
       THEN UNCHANGED << circleUpdated, caption >>
       ELSE /\ circleUpdated' = TRUE
            /\ caption' = [coords |-> << toFixed4(c.lat), toFixed4(c.lng) >>,
                           radius |-> readableDistance(c.radius)]

\* mutant of updateQueryStatus: the caption is rewritten, the flag is not set
updateQueryStatusCaptionOnly(c) ==
    /\ UNCHANGED circleUpdated
    /\ caption' = [coords |-> << toFixed4(c.lat), toFixed4(c.lng) >>,
                   radius |-> readableDistance(c.radius)]

\* updateQueryStatus(e), run on EDITMOVE and EDITRESIZE, the circle being c
updateQueryStatus(c) ==
    /\ circleUpdated' = TRUE
    /\ caption' = updateCaption(c)

\* the user drags the circle: Leaflet moves it and fires EDITMOVE
editMove ==
    \E p \in Positions :
        /\ circle' = [circle EXCEPT !.lat = p.lat, !.lng = p.lng]
        /\ updateQueryStatus(circle')
        /\ ev' = "editmove"
        /\ calls' = [NoCalls EXCEPT !.arg = << circleUpdated >>]
        /\ editsSinceCommit' = Min(editsSinceCommit + 1, 2)
        /\ UNCHANGED << subwayQuery, resVars >>

\* the user drags the resize handle: Leaflet resizes it and fires EDITRESIZE
editResize ==
    \E r \in Radii :
        /\ circle' = [circle EXCEPT !.radius = r]
        /\ updateQueryStatus(circle')
        /\ ev' = "editresize"
        /\ calls' = [NoCalls EXCEPT !.arg = << circleUpdated >>]
        /\ editsSinceCommit' = Min(editsSinceCommit + 1, 2)
        /\ UNCHANGED << subwayQuery, resVars >>

\* mutant of updateQuery: the flag is left set
updateQueryKeepsFlag ==
    /\ IF circleUpdated
          THEN /\ circleUpdated' = TRUE
               /\ subwayQuery' = CircleQuery(circle)
               /\ calls' = [NoCalls EXCEPT !.arg = << editsSinceCommit >>,
                                           !.subwaySetQuery = 1]
          ELSE /\ UNCHANGED << circleUpdated, subwayQuery >>
               /\ calls' = [NoCalls EXCEPT !.arg = << editsSinceCommit >>]
    /\ ev' = "mouseup"
    /\ editsSinceCommit' = 0
    /\ UNCHANGED << circle, caption, resVars >>

\* mutant of updateQuery: the query is set on resData, the source of the
\* two dataviews
updateQueryOnResData ==
    /\ IF circleUpdated
          THEN /\ circleUpdated' = FALSE
               /\ resQuery' = CircleQuery(circle)
               /\ requested' = requested \cup {"All"}
               /\ calls' = [NoCalls EXCEPT !.arg = << editsSinceCommit >>,
                                           !.resSetQuery = 1]
          ELSE /\ UNCHANGED << circleUpdated, resQuery, requested >>
               /\ calls' = [NoCalls EXCEPT !.arg = << editsSinceCommit >>]
    /\ ev' = "mouseup"
    /\ editsSinceCommit' = 0
    /\ UNCHANGED << circle, caption, subwayQuery, selection, subscribed,
                    zipSubscribed, bars, fills, legend, dataFor,
                    createChartCalls >>

\* updateQuery(e), run on the map's 'mouseup'
updateQuery ==
    /\ IF circleUpdated
          THEN /\ circleUpdated' = FALSE
               /\ subwayQuery' = CircleQuery(circle)
               /\ calls' = [NoCalls EXCEPT !.arg = << editsSinceCommit >>,
                                           !.subwaySetQuery = 1]
          ELSE /\ UNCHANGED << circleUpdated, subwayQuery >>
               /\ calls' = [NoCalls EXCEPT !.arg = << editsSinceCommit >>]
    /\ ev' = "mouseup"
    /\ editsSinceCommit' = 0
    /\ UNCHANGED << circle, caption, resVars >>

-----------------------------------------------------------------------------
(* The restaurant source, its two dataviews, the chart and the map *)

MaxBars == 25

Range(s) == {s[i] : i \in 1..Len(s)}

\* mutant of CuisineQuery: the new key is added to the filter already there
CuisineQueryAccumulates(key) ==
    [from |-> "htv210.nyc_restaurant_grades", where |-> << key >> \o resQuery.where]

\* the query a bar click builds from the key d[0] of the bar
CuisineQuery(key) ==
    [from |-> "htv210.nyc_restaurant_grades", where |-> << key >>]

\* the query a filter is for: "All" without a WHERE clause
TagOf(q) == IF q.where = <<>> THEN "All" ELSE q.where[1]

\* createChart: data = byCuisine.slice(0, 25); data.slice(-1)[0][0] raises on
\* an empty data, before anything is appended to the chart
chartData(byCuisine) == SubSeq(byCuisine, 1, Min(Len(byCuisine), MaxBars))
createChartRaises(byCuisine) == chartData(byCuisine) = <<>>
chartBars(byCuisine) ==
    [i \in 1..Len(chartData(byCuisine)) |-> chartData(byCuisine)[i][1]]

\* the map is redrawn from sel; when updateMap raises nothing has been drawn
redraw(sel) ==
    IF updateMapRaises(sel.data)
       THEN UNCHANGED << fills, legend >>
       ELSE /\ fills' = updateMap(sel).fills
            /\ legend' = updateMap(sel).legend

\* initBarChart(newData), the 'dataChanged' callback of totalView
initBarChart(categories) ==
    /\ createChartCalls' = Min(createChartCalls + 1, 2)
    /\ IF createChartRaises(categories)
          THEN /\ UNCHANGED << bars, subscribed >>
               /\ calls' = [NoCalls EXCEPT !.arg = categories,
                                           !.createChart = 1, !.raised = TRUE]
          ELSE /\ bars' = chartBars(categories)
               /\ subscribed' = FALSE
               /\ calls' = [NoCalls EXCEPT !.arg = categories, !.createChart = 1]

\* a totalView fetch completes and 'dataChanged' is emitted
catDataChanged ==
    \E categories \in CategoryResults :
        /\ IF subscribed
              THEN initBarChart(categories)
              ELSE /\ UNCHANGED << bars, subscribed, createChartCalls >>
                   /\ calls' = [NoCalls EXCEPT !.arg = categories]
        /\ ev' = "catData"
        /\ UNCHANGED << selVars, resQuery, selection, zipSubscribed, requested,
                        fills, legend, dataFor >>

\* mutant of zipCallback: the map is redrawn before the categories are stored
zipCallbackDrawsFirst(categories) ==
    /\ IF updateMapRaises(selection.data)
          THEN UNCHANGED << fills, legend >>
          ELSE /\ fills' = updateMap(selection).fills
               /\ legend' = updateMap(selection).legend
    /\ selection' = [selection EXCEPT !.data = categories]
    /\ calls' = [NoCalls EXCEPT !.arg = categories, !.updateMap = 1,
                                !.raised = updateMapRaises(selection.data)]

\* the 'dataChanged' callback of zipView: it stores the categories and
\* redraws the map
zipCallback(categories) ==
    /\ selection' = [selection EXCEPT !.data = categories]
    /\ redraw(selection')
    /\ calls' = [NoCalls EXCEPT !.arg = categories, !.updateMap = 1,
                                !.raised = updateMapRaises(categories)]

\* a zipView fetch, of the query t, completes and 'dataChanged' is emitted
zipDataChanged ==
    \E t \in requested, categories \in ZipResults :
        /\ zipSubscribed
        /\ zipCallback(categories)
        /\ dataFor' = t
        /\ ev' = "zipData"
        /\ UNCHANGED << selVars, resQuery, subscribed, zipSubscribed, bars,
                        requested, createChartCalls >>

\* the 'click' handler of a bar of the chart
click ==
    \E key \in Range(bars) :
        /\ resQuery' = CuisineQuery(key)
        /\ requested' = requested \cup {TagOf(resQuery')}
        /\ selection' = [selection EXCEPT !.cuisine = key]
        /\ calls' = [NoCalls EXCEPT !.arg = << key >>, !.resSetQuery = 1]
        /\ ev' = "click"
        /\ UNCHANGED << selVars, subscribed, zipSubscribed, bars, fills,
                        legend, dataFor, createChartCalls >>

\* reproject(), run on the map's 'zoomend': it ends by redrawing the map
reproject ==
    /\ redraw(selection)
    /\ calls' = [NoCalls EXCEPT !.updateMap = 1,
                                !.raised = updateMapRaises(selection.data)]
    /\ ev' = "zoomend"
    /\ UNCHANGED << selVars, resQuery, selection, subscribed, zipSubscribed,
                    bars, requested, dataFor, createChartCalls >>

-----------------------------------------------------------------------------

Next ==
    \/ editMove
    \/ editResize
    \/ updateQuery
    \/ catDataChanged
    \/ zipDataChanged
    \/ click
    \/ reproject

Spec == Init /\ [][Next]_vars

-----------------------------------------------------------------------------
(* Properties *)

\* q4 is v (1e-7 degree) rounded to four decimals
Rounds4(q4, v) == 1000 * q4 - v \in -500..500

\* q is the geometry query of a circle c
IsQueryOf(q, c) ==
    /\ q.from = "huyvo.ourdata"
    /\ q.line = "%F%"
    /\ Len(q.within) = 3
    /\ Rounds4(q.within[1], c.lat)
    /\ Rounds4(q.within[2], c.lng)
    /\ q.within[3] = c.radius

\* cap is the caption of a circle c
IsCaptionOf(cap, c) ==
    /\ Rounds4(cap.coords[1], c.lat)
    /\ Rounds4(cap.coords[2], c.lng)
    /\ cap.radius.unit \in {"m", "km"}
    /\ cap.radius.unit = "m" => cap.radius.value = c.radius
    /\ cap.radius.unit = "km" => 10 * cap.radius.value - c.radius \in -5..5

Edits == {"editmove", "editresize"}

\* C1: a mouseup that follows one or more edit events makes exactly one
\* setQuery call on subwaySource, and the query is the one of the circle's
\* centre and radius at the mouseup.
C1_CommitIssuesOneQuery ==
    (ev = "mouseup" /\ calls.arg[1] >= 1) =>
        /\ calls.subwaySetQuery = 1
        /\ IsQueryOf(subwayQuery, circle)

\* several edits, the last one leaving a geometry the earlier ones did not
\* have, then one mouseup
C1_Witness ==
    /\ ev = "mouseup"
    /\ calls.arg = << 2 >>
    /\ calls.subwaySetQuery = 1
    /\ subwayQuery.within = << 406930, -739897, 1500 >>

\* C2 as stated: a mouseup with no edit event since the previous mouseup, or
\* since setupSelectionHandlers when there is none, makes no setQuery call.
C2_NoEditNoQuery ==
    (ev = "mouseup" /\ calls.arg = << 0 >>) => calls.subwaySetQuery = 0

\* C2 amended: a mouseup with no edit event since the previous mouseup makes
\* no setQuery call and leaves the query alone; the first mouseup after
\* setupSelectionHandlers makes one, edit or no edit.
C2_NoEditSincePreviousCommit ==
    [][ /\ (ev' = "mouseup" /\ editsSinceCommit = 0
               /\ subwayQuery # BaseSubwayQuery) =>
           (calls'.subwaySetQuery = 0 /\ subwayQuery' = subwayQuery)
        /\ (ev' = "mouseup" /\ subwayQuery = BaseSubwayQuery) =>
           calls'.subwaySetQuery = 1 ]_vars

\* a mouseup right after another one, with a geometry query already set
C2_Witness ==
    /\ ev = "mouseup"
    /\ calls.arg = << 0 >>
    /\ calls.subwaySetQuery = 0
    /\ subwayQuery # BaseSubwayQuery

\* C3: createChart is called at most once, and initBarChart is off the
\* view once it has handled a delivery.
C3_ChartBuiltOnce ==
    /\ createChartCalls <= 1
    /\ createChartCalls >= 1 => ~subscribed

\* C4: every zipView delivery replaces selection.data by the delivered
\* pairs and calls updateMap once, which draws from the new value; the
\* callback stays registered.
C4_RegionDeliveryRedraws ==
    /\ zipSubscribed
    /\ ev = "zipData" =>
        /\ selection.data = calls.arg
        /\ calls.updateMap = 1
        /\ ~calls.raised =>
              /\ fills = updateMap(selection).fills
              /\ legend = updateMap(selection).legend

\* a delivery of three counts for a clicked cuisine, replacing other counts
C4_Witness ==
    /\ ev = "zipData"
    /\ dataFor # "All"
    /\ calls.arg = << <<"10001", 5>>, <<"10002", 0>>, <<"10003", MaxCount>> >>
    /\ fills["10003"] = schemeBlues[5]
    /\ fills["10004"] = "none"

\* C5: a bar click makes one setQuery call on resData, the filter names the
\* clicked key and no other, and selection.cuisine is the clicked key.
C5_ClickFiltersByKey ==
    ev = "click" =>
        /\ calls.resSetQuery = 1
        /\ calls.subwaySetQuery = 0
        /\ resQuery.where = calls.arg
        /\ selection.cuisine = calls.arg[1]

\* "Tacos" clicked after "Pizza"
C5_Witness ==
    /\ ev = "click"
    /\ calls.arg = << "Tacos" >>
    /\ "Pizza" \in requested
    /\ resQuery.where = << "Tacos" >>

\* the bin of a count v out of steps equal bins of [0, maxCount)
Bin(v, maxCount) ==
    IF maxCount <= 0 THEN 1 ELSE Min(steps, (steps * v) \div maxCount + 1)

\* C6: the drawn counts fall in 5 equal bins of [0, max), one colour of the
\* ramp each, a count of 0 in the first.
C6_FiveEqualBins ==
    ~updateMapRaises(selection.data) =>
        \A i \in 1..Len(selection.data) :
            LET d == selection.data[i]
            IN  d[1] \in Features =>
                    fills[d[1]] = schemeBlues[Bin(d[2], d3max(selection.data))]

\* C7: updateMap on an empty selection.data does not raise, finds no
\* maximum, gives the scale an empty domain, leaves every path without
\* fill and rebuilds the legend.
C7_EmptyDataRedraws ==
    (calls.updateMap = 1 /\ selection.data = <<>>) =>
        /\ ~calls.raised
        /\ d3max(selection.data) = Undefined
        /\ legend.ticks = <<>>
        /\ \A f \in Features : fills[f] = "none"
        /\ Len(legend.boxes) = Len(schemeBlues)
        /\ legend.caption = selection.cuisine

\* an empty delivery for a clicked cuisine
C7_Witness ==
    /\ ev = "zipData"
    /\ calls.arg = <<>>
    /\ selection.data = <<>>
    /\ selection.cuisine = "Pizza"
    /\ legend.caption = "Pizza"

\* C8 as stated: the query of a committed change goes to the source whose
\* results repopulate the map shading, which is resData.
C8_CommitQueriesMapSource ==
    (ev = "mouseup" /\ calls.arg[1] >= 1) => calls.resSetQuery = 1

\* C8 amended: a committed change becomes one query on subwaySource and
\* nothing else: resData, what has been requested of it, the Selection and
\* the map are as they were.
C8_CommitQueriesSubwayOnly ==
    [][ (ev' = "mouseup" /\ editsSinceCommit >= 1) =>
           /\ calls'.subwaySetQuery = 1
           /\ calls'.resSetQuery = 0
           /\ calls'.updateMap = 0
           /\ UNCHANGED << resQuery, requested, selection, dataFor, fills,
                           legend >> ]_vars

\* a committed change while the map shows delivered counts
C8_Witness ==
    /\ ev = "mouseup"
    /\ calls.arg[1] >= 1
    /\ calls.subwaySetQuery = 1
    /\ selection.data # <<>>
    /\ fills["10001"] # "none"

\* C9: an edit event sets the flag and rewrites the caption from the
\* circle as it now is, calls setQuery on neither source and leaves both
\* queries and the Selection alone.
C9_EditMarksAndCaptions ==
    [][ ev' \in Edits =>
           /\ circleUpdated'
           /\ IsCaptionOf(caption', circle')
           /\ calls'.subwaySetQuery = 0
           /\ calls'.resSetQuery = 0
           /\ UNCHANGED << subwayQuery, resQuery, selection >> ]_vars

\* an edit that finds the flag set and changes the caption
C9_Witness ==
    /\ ev \in Edits
    /\ calls.arg = << TRUE >>
    /\ editsSinceCommit = 2
    /\ caption.radius.unit = "km"
    /\ caption.coords = << 406930, -739897 >>

\* C10: whenever updateMap is called with delivered counts, they are the
\* counts of the query for selection.cuisine.
C10_RedrawMatchesCuisine ==
    (calls.updateMap = 1 /\ dataFor # "none") => dataFor = selection.cuisine

\* C11: whenever the flag circleUpdated is false, the query of
\* subwaySource is the one of the circle's centre and radius as they are
\* (the circle changing only together with an edit event).
C11_CleanFlagQueryCurrent ==
    ~circleUpdated => IsQueryOf(subwayQuery, circle)

\* the flag is false after edits were committed, the circle moved and
\* resized away from where it was created, and other handlers ran since
C11_Witness ==
    /\ ~circleUpdated
    /\ circle = [lat |-> 406929501, lng |-> -739896501, radius |-> 1500]
    /\ subwayQuery.within = << 406930, -739897, 1500 >>
    /\ ev = "click"

====
